---------------------------- MODULE Spec2Model ----------------------------
(***************************************************************************)
(* Model of mortality_pipeline.py: the age-band parser (parse_age_min,     *)
(* parse_age_max), load_raw, clean_mortality and the merge-and-sort of     *)
(* main.                                                                   *)
(*                                                                         *)
(* Text is a sequence of one-character strings, so that substring tests    *)
(* and regular-expression searches are computed character by character.   *)
(* A cell of a table is a record [na, v]: na = TRUE is the missing value   *)
(* (NaN), otherwise v is the text or the number held.                      *)
(***************************************************************************)
EXTENDS Integers, Sequences, FiniteSets, TLC

VARIABLES
    label,      \* parser: the age-group label under construction / parsed
    nfrag,      \* parser: number of fragments the label was built from
    age_min,    \* parser: result of parse_age_min(label)
    age_max,    \* parser: result of parse_age_max(label)
    ppc,        \* parser: "input" | "parsed" | "off"
    raw1,       \* the 2004-2017 file as read_csv returns it
    raw2,       \* the 2018-2023 file as read_csv returns it
    df1,        \* df1_raw of main
    df2,        \* df2_raw of main
    work,       \* df of clean_mortality after step 7, before the filter
    clean1,     \* clean1 of main
    clean2,     \* clean2 of main
    merged,     \* merged_clean of main
    pc,         \* position of main
    err         \* the exception that ended main, "" if none

pvars == <<label, nfrag, age_min, age_max, ppc>>
mvars == <<raw1, raw2, df1, df2, work, clean1, clean2, merged, pc, err>>
vars == <<label, nfrag, age_min, age_max, ppc,
          raw1, raw2, df1, df2, work, clean1, clean2, merged, pc, err>>

\* ---------------------------------------------------------------- bounds
\* Number of fragments a generated age label is concatenated from.
MaxFrags == 3
\* Number of records in the two input files together.
MaxRows == 2

\* ----------------------------------------------------------------- cells
NaN == [na |-> TRUE, v |-> 0]
Val(x) == [na |-> FALSE, v |-> x]
isna(c) == c.na

\* ------------------------------------------------------------------ text
UpperChars == <<"A","B","C","D","E","F","G","H","I","J","K","L","M",
                "N","O","P","Q","R","S","T","U","V","W","X","Y","Z">>
LowerChars == <<"a","b","c","d","e","f","g","h","i","j","k","l","m",
                "n","o","p","q","r","s","t","u","v","w","x","y","z">>
DigitChars == <<"0","1","2","3","4","5","6","7","8","9">>

IndexOf(seq, c) ==
    IF \E i \in 1..Len(seq) : seq[i] = c
    THEN CHOOSE i \in 1..Len(seq) : seq[i] = c
    ELSE 0

\* str.lower()
LowerChar(c) ==
    LET k == IndexOf(UpperChars, c) IN IF k = 0 THEN c ELSE LowerChars[k]
lower(s) == [i \in 1..Len(s) |-> LowerChar(s[i])]

\* the Python test  sub in s
Contains(s, sub) ==
    \E i \in 1..(Len(s) - Len(sub) + 1) : SubSeq(s, i, i + Len(sub) - 1) = sub

\* \d
IsDigit(c) == IndexOf(DigitChars, c) # 0
DigitVal(c) == IndexOf(DigitChars, c) - 1

\* int() of a string of digits
RECURSIVE int(_)
int(ds) ==
    IF Len(ds) = 0 THEN 0
    ELSE 10 * int(SubSeq(ds, 1, Len(ds) - 1)) + DigitVal(ds[Len(ds)])

\* last index of the greedy \d+ that starts at i (s[i] is a digit)
RECURSIVE RunEnd(_, _)
RunEnd(s, i) ==
    IF i < Len(s) /\ IsDigit(s[i + 1]) THEN RunEnd(s, i + 1) ELSE i

NoMatch == [ok |-> FALSE, g1 |-> 0, g2 |-> 0]

\* leftmost index of a set of match positions
Leftmost(S) == CHOOSE i \in S : \A j \in S : i <= j

\* re.search(r"(\d+)\+", s)
PlusAt(s, i) ==
    /\ IsDigit(s[i])
    /\ RunEnd(s, i) < Len(s)
    /\ s[RunEnd(s, i) + 1] = "+"
SearchPlus(s) ==
    LET S == {i \in 1..Len(s) : PlusAt(s, i)} IN
    IF S = {} THEN NoMatch
    ELSE LET i == Leftmost(S) IN
         [ok |-> TRUE, g1 |-> int(SubSeq(s, i, RunEnd(s, i))), g2 |-> 0]

\* U+2013 EN DASH, one character of the text (the module is ASCII)
EnDash == "<en-dash>"

\* variant: the range pattern accepts the hyphen only
RangeDashes_hyphen_only == {"-"}

\* the character class of the range pattern: hyphen and en-dash
RangeDashes == {"-", EnDash}

\* re.search(r"(\d+)[\-<en-dash>](\d+)", s)
RangeAt(s, i) ==
    /\ IsDigit(s[i])
    /\ RunEnd(s, i) + 2 <= Len(s)
    /\ s[RunEnd(s, i) + 1] \in RangeDashes
    /\ IsDigit(s[RunEnd(s, i) + 2])
SearchRange(s) ==
    LET S == {i \in 1..Len(s) : RangeAt(s, i)} IN
    IF S = {} THEN NoMatch
    ELSE LET i == Leftmost(S)
             e == RunEnd(s, i)
         IN  [ok |-> TRUE,
              g1 |-> int(SubSeq(s, i, e)),
              g2 |-> int(SubSeq(s, e + 2, RunEnd(s, e + 2)))]

\* re.search(r"(\d+)", s)
SearchNum(s) ==
    LET S == {i \in 1..Len(s) : IsDigit(s[i])} IN
    IF S = {} THEN NoMatch
    ELSE LET i == Leftmost(S) IN
         [ok |-> TRUE, g1 |-> int(SubSeq(s, i, RunEnd(s, i))), g2 |-> 0]

Under == <<"u","n","d","e","r">>
Not == <<"n","o","t">>
Unknown == <<"u","n","k","n","o","w","n">>

\* ---------------------------------------------------------- the parser
\* variant: the "not"/"unknown" test is made before the "under" test
parse_age_min_not_first(group) ==
    IF isna(group) THEN NaN
    ELSE LET s == lower(group.v) IN
         IF Contains(s, Not) \/ Contains(s, Unknown) THEN NaN
         ELSE IF Contains(s, Under) THEN Val(0)
         ELSE IF SearchPlus(s).ok THEN Val(SearchPlus(s).g1)
         ELSE IF SearchRange(s).ok THEN Val(SearchRange(s).g1)
         ELSE IF SearchNum(s).ok THEN Val(SearchNum(s).g1)
         ELSE NaN

\* variant: the range pattern is tried before the "<N>+" pattern
parse_age_min_range_first(group) ==
    IF isna(group) THEN NaN
    ELSE LET s == lower(group.v) IN
         IF Contains(s, Under) THEN Val(0)
         ELSE IF Contains(s, Not) \/ Contains(s, Unknown) THEN NaN
         ELSE IF SearchRange(s).ok THEN Val(SearchRange(s).g1)
         ELSE IF SearchPlus(s).ok THEN Val(SearchPlus(s).g1)
         ELSE IF SearchNum(s).ok THEN Val(SearchNum(s).g1)
         ELSE NaN

parse_age_min(group) ==
    IF isna(group) THEN NaN
    ELSE LET s == lower(group.v) IN
         IF Contains(s, Under) THEN Val(0)
         ELSE IF Contains(s, Not) \/ Contains(s, Unknown) THEN NaN
         ELSE IF SearchPlus(s).ok THEN Val(SearchPlus(s).g1)
         ELSE IF SearchRange(s).ok THEN Val(SearchRange(s).g1)
         ELSE IF SearchNum(s).ok THEN Val(SearchNum(s).g1)
         ELSE NaN

\* variant: no fallback to the first number of the label
parse_age_max_no_fallback(group) ==
    IF isna(group) THEN NaN
    ELSE LET s == lower(group.v) IN
         IF Contains(s, Under) THEN Val(1)
         ELSE IF Contains(s, Not) \/ Contains(s, Unknown) THEN NaN
         ELSE IF SearchRange(s).ok THEN Val(SearchRange(s).g2)
         ELSE IF SearchPlus(s).ok THEN Val(SearchPlus(s).g1 + 9)
         ELSE NaN

parse_age_max(group) ==
    IF isna(group) THEN NaN
    ELSE LET s == lower(group.v) IN
         IF Contains(s, Under) THEN Val(1)
         ELSE IF Contains(s, Not) \/ Contains(s, Unknown) THEN NaN
         ELSE IF SearchRange(s).ok THEN Val(SearchRange(s).g2)
         ELSE IF SearchPlus(s).ok THEN Val(SearchPlus(s).g1 + 9)
         ELSE IF SearchNum(s).ok THEN Val(SearchNum(s).g1)
         ELSE NaN

\* ------------------------------------------------------------ tables
\* A table (DataFrame) is its set of column names and its sequence of rows;
\* a row is a function from the column names to cells.
Table(cols, rows) == [cols |-> cols, rows |-> rows]
Rows(t) == 1..Len(t.rows)

\* df[c]: the column as a series
column(t, c) == [i \in Rows(t) |-> t.rows[i][c]]

\* df[c] = series
assign(t, c, series) ==
    Table(t.cols \cup {c},
          [i \in Rows(t) |->
              [k \in t.cols \cup {c} |->
                  IF k = c THEN series[i] ELSE t.rows[i][k]]])

\* df[c] = value, the same in every row
assign_const(t, c, value) == assign(t, c, [i \in Rows(t) |-> value])

\* df.drop(columns=cs)
drop(t, cs) ==
    Table(t.cols \ cs, [i \in Rows(t) |-> [k \in t.cols \ cs |-> t.rows[i][k]]])

\* df.rename(columns={old: new})
rename(t, old, new) ==
    Table((t.cols \ {old}) \cup {new},
          [i \in Rows(t) |->
              [k \in (t.cols \ {old}) \cup {new} |->
                  IF k = new THEN t.rows[i][old] ELSE t.rows[i][k]]])

\* ---------------------------------------------------------- numbers
\* pd.to_numeric(errors="coerce") on the text of a cell: an optional minus
\* sign and digits give the integer, any other text of the model gives NaN.
IsIntText(s) ==
    /\ Len(s) > 0
    /\ LET body == IF s[1] = "-" THEN Tail(s) ELSE s IN
       Len(body) > 0 /\ \A i \in 1..Len(body) : IsDigit(body[i])
to_numeric(c) ==
    IF isna(c) \/ ~IsIntText(c.v) THEN NaN
    ELSE IF c.v[1] = "-" THEN Val(0 - int(Tail(c.v))) ELSE Val(int(c.v))

\* Series.astype(str): the text of the cell, "nan" for a missing one
astype_str(c) == IF isna(c) THEN <<"n","a","n">> ELSE c.v

\* A float that may be infinite: inf is -1, 0 or 1; a finite one is num/den.
Finite(n, d) == [inf |-> 0, num |-> n, den |-> d]
Infinite(sign) == [inf |-> sign, num |-> 0, den |-> 1]
isinf(c) == ~isna(c) /\ c.v.inf # 0

\* (Deaths / Population) * 100000 in float arithmetic
rate(d, p) ==
    IF isna(d) \/ isna(p) THEN NaN
    ELSE IF p.v = 0
         THEN IF d.v = 0 THEN NaN
              ELSE IF d.v > 0 THEN Val(Infinite(1)) ELSE Val(Infinite(-1))
         ELSE Val(Finite(d.v * 100000, p.v))

\* variant: the in-place replace does not reach the column
replace_inf_noop(c) == c

\* .replace([np.inf, -np.inf], np.nan, inplace=True) on the column just
\* assigned: the replacement reaches the column of df (pandas before 3.0;
\* under Copy-on-Write the call would act on a temporary, as in the variant)
replace_inf(c) == IF isinf(c) THEN NaN ELSE c

\* ---------------------------------------------------------- load_raw
SourceTag1 == "2004-2017"

\* variant: the second file gets the tag of the first
SourceTag2_copied == "2004-2017"

SourceTag2 == "2018-2023"

load_raw_1(t) == assign_const(t, "Source_File", Val(SourceTag1))
load_raw_2(t) ==
    LET u == IF "Single Race 6" \in t.cols
             THEN rename(t, "Single Race 6", "Race") ELSE t
    IN  assign_const(u, "Source_File", Val(SourceTag2))

\* ----------------------------------------------------- clean_mortality
redundant_cols ==
    {"State Code", "Year Code", "Ten-Year Age Groups Code", "Race Code",
     "Sex Code", "Single Race 6 Code"}

Unreliable == <<"U","n","r","e","l","i","a","b","l","e">>
Male == <<"M","a","l","e">>
Female == <<"F","e","m","a","l","e">>

\* 1. remove redundant columns if they exist
step1_drop(t) == drop(t, redundant_cols \cap t.cols)

\* variant: the flag is a substring test
flag_substring(c) == Val(IF Contains(astype_str(c), Unreliable) THEN 1 ELSE 0)

\* 2. flag unreliable crude rate before conversion
flag(c) == Val(IF astype_str(c) = Unreliable THEN 1 ELSE 0)
step2_flag(t) ==
    IF "Crude Rate" \in t.cols
    THEN assign(t, "Unreliable_Flag",
                [i \in Rows(t) |-> flag(column(t, "Crude Rate")[i])])
    ELSE assign_const(t, "Unreliable_Flag", Val(0))

\* 3. convert numeric columns
coerce(t, c) ==
    IF c \in t.cols THEN assign(t, c, [i \in Rows(t) |-> to_numeric(column(t, c)[i])]) ELSE t
step3_numeric(t) == coerce(coerce(coerce(t, "Year"), "Deaths"), "Population")

\* 4. convert crude rate to numeric and store as new column
step4_crude(t) ==
    IF "Crude Rate" \in t.cols
    THEN drop(assign(t, "CrudeRate_Reported",
                     [i \in Rows(t) |-> to_numeric(column(t, "Crude Rate")[i])]),
              {"Crude Rate"})
    ELSE assign_const(t, "CrudeRate_Reported", NaN)

\* 5. clean Sex labels
replace_sex(c) ==
    IF isna(c) THEN c
    ELSE IF c.v = <<"M">> THEN Val(Male)
    ELSE IF c.v = <<"F">> THEN Val(Female)
    ELSE c
step5_sex(t) ==
    IF "Sex" \in t.cols
    THEN assign(t, "Sex", [i \in Rows(t) |-> replace_sex(column(t, "Sex")[i])])
    ELSE t

\* 6. parse age bands into numeric; Age_Mid is (Age_Min + Age_Max) / 2
age_mid(lo, hi) ==
    IF isna(lo) \/ isna(hi) THEN NaN ELSE Val(Finite(lo.v + hi.v, 2))
step6_age(t) ==
    IF "Ten-Year Age Groups" \in t.cols
    THEN LET groups == column(t, "Ten-Year Age Groups")
             a == assign(t, "Age_Min", [i \in Rows(t) |-> parse_age_min(groups[i])])
             b == assign(a, "Age_Max", [i \in Rows(t) |-> parse_age_max(groups[i])])
         IN  assign(b, "Age_Mid",
                    [i \in Rows(t) |->
                        age_mid(column(b, "Age_Min")[i], column(b, "Age_Max")[i])])
    ELSE t

\* 7. crude rate per 100k from deaths and population; df["Deaths"] and
\* df["Population"] raise KeyError when the column is absent
step7_raises(t) == ~({"Deaths", "Population"} \subseteq t.cols)
step7_rate(t) ==
    assign(t, "CrudeRate_Calculated",
           [i \in Rows(t) |->
               replace_inf(rate(column(t, "Deaths")[i], column(t, "Population")[i]))])

\* variant: the filter keeps a population of zero
sane_nonneg(r) ==
    /\ ~isna(r["Population"]) /\ r["Population"].v >= 0
    /\ ~isna(r["Deaths"]) /\ r["Deaths"].v >= 0

\* 8. basic sanity filters; a comparison with NaN is False
sane(r) ==
    /\ ~isna(r["Population"]) /\ r["Population"].v > 0
    /\ ~isna(r["Deaths"]) /\ r["Deaths"].v >= 0
step8_filter(t) == Table(t.cols, SelectSeq(t.rows, sane))

\* steps 1 to 7
features(t) ==
    step7_rate(step6_age(step5_sex(step4_crude(step3_numeric(
        step2_flag(step1_drop(t)))))))

\* ------------------------------------------------------ merge and order
\* pd.concat([a, b], ignore_index=True): the union of the columns, a column
\* a table lacks is NaN in its rows
reindex(t, cols) ==
    [i \in Rows(t) |-> [k \in cols |-> IF k \in t.cols THEN t.rows[i][k] ELSE NaN]]
concat(a, b) ==
    Table(a.cols \cup b.cols,
          reindex(a, a.cols \cup b.cols) \o reindex(b, a.cols \cup b.cols))

sort_by == <<"State", "Year", "Age_Min", "Sex", "Race">>
text_cols == {"State", "Sex", "Race"}

\* the characters of the model in code-point order
CodePoints ==
    <<" ", "+", "-">> \o DigitChars \o UpperChars \o LowerChars \o <<EnDash>>
ord(c) == IndexOf(CodePoints, c)

\* a < b for Python strings
RECURSIVE StrLess(_, _)
StrLess(a, b) ==
    IF Len(b) = 0 THEN FALSE
    ELSE IF Len(a) = 0 THEN TRUE
    ELSE IF a[1] = b[1] THEN StrLess(Tail(a), Tail(b))
    ELSE ord(a[1]) < ord(b[1])

\* order of two cells of a key column, na_position="last"
CellLess(col, a, b) ==
    /\ ~isna(a)
    /\ \/ isna(b)
       \/ IF col \in text_cols THEN StrLess(a.v, b.v) ELSE a.v < b.v

\* lexicographic order on the key columns from position k on
RECURSIVE KeyLess(_, _, _)
KeyLess(a, b, k) ==
    IF k > Len(sort_by) THEN FALSE
    ELSE \/ CellLess(sort_by[k], a[sort_by[k]], b[sort_by[k]])
         \/ /\ ~CellLess(sort_by[k], b[sort_by[k]], a[sort_by[k]])
            /\ KeyLess(a, b, k + 1)
RowLess(a, b) == KeyLess(a, b, 1)

\* variant: a row is placed before the rows of equal key
InsertPoint_before_ties(rows, r) ==
    LET S == {i \in 1..Len(rows) : ~RowLess(rows[i], r)} IN
    IF S = {} THEN Len(rows) + 1 ELSE Leftmost(S)

\* where a stable sort places r among the sorted rows: after every row that
\* is not greater
InsertPoint(rows, r) ==
    LET S == {i \in 1..Len(rows) : RowLess(r, rows[i])} IN
    IF S = {} THEN Len(rows) + 1 ELSE Leftmost(S)

RECURSIVE StableSort(_)
StableSort(rows) ==
    IF Len(rows) = 0 THEN <<>>
    ELSE LET front == StableSort(SubSeq(rows, 1, Len(rows) - 1))
             r == rows[Len(rows)]
             k == InsertPoint(front, r)
         IN  SubSeq(front, 1, k - 1) \o <<r>> \o SubSeq(front, k, Len(front))

\* sort_values(by=[...], kind="mergesort") raises KeyError for a key column
\* the table lacks; reset_index(drop=True) renumbers the rows
sort_raises(t) == \E k \in 1..Len(sort_by) : sort_by[k] \notin t.cols
sort_values(t) == Table(t.cols, StableSort(t.rows))

\* -------------------------------------------------------- input files
Txt2(a, b) == Val(<<a, b>>)
Years == <<" ","y","e","a","r","s">>
CA == Txt2("C", "A")
AL == Txt2("A", "L")
Y2010 == Val(<<"2","0","1","0">>)
Y2011 == Val(<<"2","0","1","1">>)
NotANumber == Val(<<"x">>)
White == Val(<<"W","h","i","t","e">>)
Black == Val(<<"B","l","a","c","k">>)
Age45_54 == Val(<<"4","5","-","5","4">> \o Years)
Age45_54_dash == Val(<<"4","5",EnDash,"5","4">> \o Years)
Age85 == Val(<<"8","5","+">> \o Years)
Age1_4 == Val(<<"1","-","4">> \o Years)
Age5_14 == Val(<<"5",EnDash,"1","4">> \o Years)
AgeUnder == Val(<<"U","n","d","e","r"," ","1"," ","y","e","a","r">>)
AgeNot == Val(<<"N","o","t"," ","S","t","a","t","e","d">>)

Record(st, yr, age, sex, race, d, p, cr) ==
    [st |-> st, yr |-> yr, age |-> age, sex |-> sex, race |-> race,
     d |-> d, p |-> p, cr |-> cr]

\* The records an input file may hold.  The first four pass the filter (two
\* of them get the same sort key); the others have a zero or missing
\* population with positive, zero, negative or missing deaths, negative or
\* missing deaths with a positive population, or a negative population.
Universe ==
    { Record(CA, Y2010, Age45_54, Val(<<"M">>), White,
             Txt2("1","0"), Val(<<"1","0","0">>), Txt2("1","0")),
      Record(CA, Y2010, Age45_54_dash, Val(Male), White,
             Val(<<"0">>), Val(<<"1","0","0">>), Val(Unreliable)),
      Record(AL, Y2011, Age85, Val(<<"F">>), Black,
             Val(<<"5">>), Txt2("5","0"), Val(lower(Unreliable))),
      Record(CA, NotANumber, AgeNot, Val(<<"F">>), White,
             Val(<<"1">>), Val(<<"7">>), NaN),
      Record(AL, Y2010, AgeUnder, Val(<<"F">>), Black,
             Val(<<"2">>), Val(<<"0">>), Val(Unreliable \o <<" ">>)),
      Record(CA, Y2011, NaN, Val(<<"M">>), White,
             Val(<<"0">>), Val(<<"0">>), Val(Unreliable)),
      Record(NaN, Y2010, Age1_4, Val(<<"M">>), Black,
             Txt2("-","1"), Val(<<"0">>), Txt2("1","2")),
      Record(AL, Y2010, Age5_14, Val(<<"U">>), White,
             NotANumber, Val(<<"0">>), NaN),
      Record(CA, Y2010, Age85, Val(Female), Black,
             Val(<<"3">>), NaN, Val(<<"x">> \o Unreliable)),
      Record(AL, Y2011, Age1_4, Val(Male), White,
             Val(<<"0">>), NotANumber, Val(<<"4">>)),
      Record(AL, Y2010, Age45_54, Val(<<"F">>), NaN,
             Txt2("-","2"), NaN, Val(Unreliable)),
      Record(CA, Y2011, Age5_14, NaN, Black,
             NaN, NaN, Val(<<>>)),
      Record(AL, Y2010, Age1_4, Val(<<"M">>), White,
             Txt2("-","1"), Val(<<"1","0","0">>), Val(<<"3">>)),
      Record(CA, Y2011, Age85, Val(<<"F">>), Black,
             Val(<<"4">>), Txt2("-","5"), Val(Unreliable)),
      Record(AL, Y2011, AgeUnder, Val(<<"M">>), Black,
             NotANumber, Val(<<"1","0","0">>), Val(<<"9">>)) }

\* the columns of a complete export of either period
Columns1 ==
    {"State", "State Code", "Year", "Year Code", "Ten-Year Age Groups",
     "Ten-Year Age Groups Code", "Sex", "Sex Code", "Race", "Race Code",
     "Deaths", "Population", "Crude Rate"}
Columns2 ==
    (Columns1 \ {"Race", "Race Code"}) \cup {"Single Race 6", "Single Race 6 Code"}

\* Which columns the two files have: both complete; the first without
\* Population; the second without Crude Rate, Year, the age groups and the
\* codes; both without the age groups.
Layouts ==
    { [c1 |-> Columns1, c2 |-> Columns2],
      [c1 |-> Columns1 \ {"Population"}, c2 |-> Columns2],
      [c1 |-> Columns1,
       c2 |-> {"State", "Sex", "Single Race 6", "Deaths", "Population"}],
      [c1 |-> Columns1 \ {"Ten-Year Age Groups"},
       c2 |-> Columns2 \ {"Ten-Year Age Groups"}] }

\* The row read_csv makes of record u, line `line` of file `file`, for the
\* columns the file has.  "Record" holds the file and line the row came
\* from; no step of the pipeline reads it.
Origin(file, line) == Val([file |-> file, line |-> line])
RawCell(k, u, file, line) ==
    CASE k = "State" -> u.st
      [] k = "Year" -> u.yr
      [] k = "Ten-Year Age Groups" -> u.age
      [] k = "Sex" -> u.sex
      [] k \in {"Race", "Single Race 6"} -> u.race
      [] k = "Deaths" -> u.d
      [] k = "Population" -> u.p
      [] k = "Crude Rate" -> u.cr
      [] k = "Record" -> Origin(file, line)
      [] OTHER -> Val(<<"0">>)
RawRow(cols, u, file, line) == [k \in cols |-> RawCell(k, u, file, line)]

Empty == Table({}, <<>>)

\* ------------------------------------------------ main: specification
Init ==
    /\ \E lay \in Layouts :
          /\ raw1 = Table(lay.c1 \cup {"Record"}, <<>>)
          /\ raw2 = Table(lay.c2 \cup {"Record"}, <<>>)
    /\ df1 = Empty /\ df2 = Empty /\ work = Empty
    /\ clean1 = Empty /\ clean2 = Empty /\ merged = Empty
    /\ pc = "input"
    /\ err = ""
    /\ label = NaN /\ nfrag = 0 /\ age_min = NaN /\ age_max = NaN
    /\ ppc = "off"

\* the first file holds one more record
ReadRecord1 ==
    /\ pc = "input"
    /\ Len(raw1.rows) + Len(raw2.rows) < MaxRows
    /\ \E u \in Universe :
          raw1' = Table(raw1.cols,
                        Append(raw1.rows,
                               RawRow(raw1.cols, u, 1, Len(raw1.rows) + 1)))
    /\ UNCHANGED <<raw2, df1, df2, work, clean1, clean2, merged, pc, err>>
    /\ UNCHANGED pvars

\* the second file holds one more record
ReadRecord2 ==
    /\ pc = "input"
    /\ Len(raw1.rows) + Len(raw2.rows) < MaxRows
    /\ \E u \in Universe :
          raw2' = Table(raw2.cols,
                        Append(raw2.rows,
                               RawRow(raw2.cols, u, 2, Len(raw2.rows) + 1)))
    /\ UNCHANGED <<raw1, df1, df2, work, clean1, clean2, merged, pc, err>>
    /\ UNCHANGED pvars

\* main step 1: load_raw
LoadRaw ==
    /\ pc = "input"
    /\ df1' = load_raw_1(raw1)
    /\ df2' = load_raw_2(raw2)
    /\ pc' = "clean1"
    /\ UNCHANGED <<raw1, raw2, work, clean1, clean2, merged, err>>
    /\ UNCHANGED pvars

\* main step 2, clean_mortality steps 1 to 7 on df1_raw, then on df2_raw
CleanFeatures ==
    /\ pc \in {"clean1", "clean2"}
    /\ LET df == IF pc = "clean1" THEN df1 ELSE df2 IN
       IF step7_raises(df)
       THEN /\ pc' = "error"
            /\ err' = "KeyError"
            /\ UNCHANGED work
       ELSE /\ work' = features(df)
            /\ pc' = IF pc = "clean1" THEN "filter1" ELSE "filter2"
            /\ UNCHANGED err
    /\ UNCHANGED <<raw1, raw2, df1, df2, clean1, clean2, merged>>
    /\ UNCHANGED pvars

\* main step 2, clean_mortality step 8 and return
CleanFilter ==
    /\ pc \in {"filter1", "filter2"}
    /\ IF pc = "filter1"
       THEN clean1' = step8_filter(work) /\ pc' = "clean2" /\ UNCHANGED clean2
       ELSE clean2' = step8_filter(work) /\ pc' = "concat" /\ UNCHANGED clean1
    /\ UNCHANGED <<raw1, raw2, df1, df2, work, merged, err>>
    /\ UNCHANGED pvars

\* main step 3: pd.concat
Concat ==
    /\ pc = "concat"
    /\ merged' = concat(clean1, clean2)
    /\ pc' = "sort"
    /\ UNCHANGED <<raw1, raw2, df1, df2, work, clean1, clean2, err>>
    /\ UNCHANGED pvars

\* main step 3: sort_values and reset_index
Sort ==
    /\ pc = "sort"
    /\ IF sort_raises(merged)
       THEN pc' = "error" /\ err' = "KeyError" /\ UNCHANGED merged
       ELSE merged' = sort_values(merged) /\ pc' = "done" /\ UNCHANGED err
    /\ UNCHANGED <<raw1, raw2, df1, df2, work, clean1, clean2>>
    /\ UNCHANGED pvars

Next ==
    \/ ReadRecord1 \/ ReadRecord2 \/ LoadRaw
    \/ CleanFeatures \/ CleanFilter \/ Concat \/ Sort

Spec == Init /\ [][Next]_vars

\* -------------------------------------------------------- main: claims
\* the record of the input files a row was made from
FileOf(r) == r["Record"].v.file
RawOf(r) ==
    IF FileOf(r) = 1 THEN raw1.rows[r["Record"].v.line]
    ELSE raw2.rows[r["Record"].v.line]
RawRows ==
    {raw1.rows[i] : i \in Rows(raw1)} \cup {raw2.rows[i] : i \in Rows(raw2)}
RowSet(t) == {t.rows[i] : i \in Rows(t)}

\* the coerced Population is non-missing and > 0, the coerced Deaths is
\* non-missing and >= 0
Passes(raw) ==
    LET p == to_numeric(raw["Population"])
        d == to_numeric(raw["Deaths"])
    IN  ~p.na /\ p.v > 0 /\ ~d.na /\ d.v >= 0

\* C1: the rows of the final table are exactly the input rows whose coerced
\* Population is non-missing and > 0 and whose coerced Deaths is
\* non-missing and >= 0, each once.
C1_FilterExact ==
    pc = "done" =>
        /\ \A r \in RowSet(merged) :
              /\ ~r["Population"].na /\ r["Population"].v > 0
              /\ ~r["Deaths"].na /\ r["Deaths"].v >= 0
              /\ r["Population"] = to_numeric(RawOf(r)["Population"])
              /\ r["Deaths"] = to_numeric(RawOf(r)["Deaths"])
        /\ {r["Record"] : r \in RowSet(merged)}
              = {raw["Record"] : raw \in {x \in RawRows : Passes(x)}}
        /\ Len(merged.rows) = Cardinality({x \in RawRows : Passes(x)})
C1_Witness ==
    /\ pc = "done"
    /\ Len(merged.rows) = 1
    /\ Cardinality(RawRows) = 2

\* the text of the Crude Rate field of an input row is exactly "Unreliable"
SaysUnreliable(cols, raw) ==
    /\ "Crude Rate" \in cols
    /\ ~raw["Crude Rate"].na
    /\ raw["Crude Rate"].v = <<"U","n","r","e","l","i","a","b","l","e">>

C2_FlagOf(t, cols) ==
    \A r \in RowSet(t) :
        /\ r["Unreliable_Flag"] \in {Val(0), Val(1)}
        /\ r["Unreliable_Flag"] = Val(1) <=> SaysUnreliable(cols, RawOf(r))
        /\ r["Unreliable_Flag"] = Val(1) => isna(r["CrudeRate_Reported"])

\* C2: Unreliable_Flag is 1 iff the text of the Crude Rate field is exactly
\* "Unreliable", else 0 (0 for every row when the column is absent), and a
\* row flagged 1 has CrudeRate_Reported missing.
C2_UnreliableFlag ==
    /\ pc = "filter1" => Len(work.rows) = Len(raw1.rows) /\ C2_FlagOf(work, raw1.cols)
    /\ pc = "filter2" => Len(work.rows) = Len(raw2.rows) /\ C2_FlagOf(work, raw2.cols)
    /\ C2_FlagOf(clean1, raw1.cols)
    /\ C2_FlagOf(clean2, raw2.cols)
C2_Witness ==
    /\ pc = "filter1"
    /\ \E r \in RowSet(work) : r["Unreliable_Flag"] = Val(1)
    /\ \E r \in RowSet(work) :
          /\ r["Unreliable_Flag"] = Val(0)
          /\ ~RawOf(r)["Crude Rate"].na
          /\ Contains(RawOf(r)["Crude Rate"].v, Unreliable)

\* the composite key (State, Year, Age_Min, Sex, Race); a missing value
\* comes after every value
C3_Key == <<"State", "Year", "Age_Min", "Sex", "Race">>
C3_CellBefore(col, a, b) ==
    /\ ~a.na
    /\ \/ b.na
       \/ IF col \in {"State", "Sex", "Race"} THEN StrLess(a.v, b.v) ELSE a.v < b.v
C3_CellSame(col, a, b) == ~C3_CellBefore(col, a, b) /\ ~C3_CellBefore(col, b, a)
C3_Before(a, b) ==
    \E k \in 1..Len(C3_Key) :
        /\ \A j \in 1..(k - 1) : C3_CellSame(C3_Key[j], a[C3_Key[j]], b[C3_Key[j]])
        /\ C3_CellBefore(C3_Key[k], a[C3_Key[k]], b[C3_Key[k]])
C3_Concatenation ==
    reindex(clean1, merged.cols) \o reindex(clean2, merged.cols)
C3_PlaceIn(seq, r) == CHOOSE i \in 1..Len(seq) : seq[i] = r

\* C3: the final table is a permutation of the concatenation in
\* non-decreasing key order, rows of equal key in the order of the
\* concatenation; sorting it again changes nothing.
C3_StableSorted ==
    pc = "done" =>
        LET cat == C3_Concatenation
            out == merged.rows
        IN  /\ Len(out) = Len(cat)
            /\ \A i \in 1..Len(out) : \E j \in 1..Len(cat) : out[i] = cat[j]
            /\ \A i, j \in 1..Len(out) : i # j => out[i] # out[j]
            /\ \A i, j \in 1..Len(out) :
                  i < j =>
                     /\ ~C3_Before(out[j], out[i])
                     /\ ~C3_Before(out[i], out[j])
                            => C3_PlaceIn(cat, out[i]) < C3_PlaceIn(cat, out[j])
            /\ sort_values(merged) = merged
C3_Witness ==
    /\ pc = "done"
    /\ Len(merged.rows) = 2
    /\ ~C3_Before(merged.rows[1], merged.rows[2])
    /\ RawOf(merged.rows[1])["Sex"] # RawOf(merged.rows[2])["Sex"]

\* C4: main never ends in an exception because a column is absent.
C4_NoAbort == pc # "error"

C8_ZeroOrMissing(raw) ==
    LET p == to_numeric(raw["Population"]) IN p.na \/ p.v = 0
C8_NoInf(t) ==
    \A r \in RowSet(t) :
        r["CrudeRate_Calculated"].na \/ r["CrudeRate_Calculated"].v.inf = 0

C9_Tagged(t) ==
    \A r \in RowSet(t) :
        r["Source_File"] = Val(IF FileOf(r) = 1 THEN "2004-2017" ELSE "2018-2023")

\* C9: every row carries the tag of the file it was read from, from
\* load_raw on: "2004-2017" for the first file, "2018-2023" for the second.
C9_SourceFile ==
    /\ pc \notin {"off", "input"} =>
          /\ Len(df1.rows) = Len(raw1.rows) /\ Len(df2.rows) = Len(raw2.rows)
          /\ \A r \in RowSet(df1) : FileOf(r) = 1
          /\ \A r \in RowSet(df2) : FileOf(r) = 2
    /\ C9_Tagged(df1) /\ C9_Tagged(df2) /\ C9_Tagged(work)
    /\ C9_Tagged(clean1) /\ C9_Tagged(clean2) /\ C9_Tagged(merged)
C9_Witness ==
    /\ pc = "done"
    /\ \E r \in RowSet(merged) : FileOf(r) = 1
    /\ \E r \in RowSet(merged) : FileOf(r) = 2

\* ------------------------------------------------ parser: specification
\* Pieces of CDC age-group labels ("Under 1 year", "Not Stated", "Unknown",
\* "1-4 years", "5<en-dash>14 years", "85+ years") from which labels are built.
Fragments ==
    { <<"U","n","d","e","r">>, <<"N","O","T">>, <<"u","n","k","n","o","w","n">>,
      <<"1","-","4">>, <<"8","5","+">>, <<"5">>, <<"0">>,
      <<"-">>, <<EnDash>>, <<"+">>, <<" ">>, <<"y">> }

InitParser ==
    /\ label = Val(<<>>)
    /\ nfrag = 0
    /\ age_min = NaN
    /\ age_max = NaN
    /\ ppc = "input"
    /\ raw1 = Empty /\ raw2 = Empty /\ df1 = Empty /\ df2 = Empty
    /\ work = Empty /\ clean1 = Empty /\ clean2 = Empty /\ merged = Empty
    /\ pc = "off"
    /\ err = ""

\* the label read from the file grows by one fragment
AppendFragment ==
    /\ ppc = "input"
    /\ ~isna(label)
    /\ nfrag < MaxFrags
    /\ \E f \in Fragments : label' = Val(label.v \o f)
    /\ nfrag' = nfrag + 1
    /\ UNCHANGED <<age_min, age_max, ppc>>
    /\ UNCHANGED mvars

\* the cell of the file is empty: read_csv yields a missing value
MissingLabel ==
    /\ ppc = "input"
    /\ nfrag = 0
    /\ ~isna(label)
    /\ label' = NaN
    /\ UNCHANGED <<nfrag, age_min, age_max, ppc>>
    /\ UNCHANGED mvars

\* clean_mortality step 6 on one label
ParseLabel ==
    /\ ppc = "input"
    /\ age_min' = parse_age_min(label)
    /\ age_max' = parse_age_max(label)
    /\ ppc' = "parsed"
    /\ UNCHANGED <<label, nfrag>>
    /\ UNCHANGED mvars

NextParser == AppendFragment \/ MissingLabel \/ ParseLabel

SpecParser == InitParser /\ [][NextParser]_vars

\* ------------------------------------------------------ parser: claims
\* The patterns of the claims, stated by position and independently of the
\* searches above.
Digits == {"0","1","2","3","4","5","6","7","8","9"}
AllDigits(s, i, j) == i <= j /\ \A k \in i..j : s[k] \in Digits

\* s[i..j] is a number directly followed by "+"
PlusOcc(s, i, j) ==
    /\ 1 <= i /\ j < Len(s)
    /\ AllDigits(s, i, j)
    /\ s[j + 1] = "+"
HasPlus(s) == \E i, j \in 1..Len(s) : PlusOcc(s, i, j)
\* N of the first "<N>+": the occurrence that starts leftmost
FirstPlusN(s) ==
    LET occ == {p \in (1..Len(s)) \X (1..Len(s)) : PlusOcc(s, p[1], p[2])}
        p == CHOOSE q \in occ : \A r \in occ : q[1] <= r[1]
    IN  int(SubSeq(s, p[1], p[2]))

\* s[i..j] and s[j+2..l] are numbers joined by a hyphen or an en-dash, the
\* second one not continued by a further digit
RangeOcc(s, i, j, l) ==
    /\ 1 <= i /\ j + 2 <= l /\ l <= Len(s)
    /\ AllDigits(s, i, j)
    /\ s[j + 1] \in {"-", EnDash}
    /\ AllDigits(s, j + 2, l)
    /\ (l < Len(s) => s[l + 1] \notin Digits)
HasRange(s) == \E i, j, l \in 1..Len(s) : RangeOcc(s, i, j, l)
FirstRange(s) ==
    LET I == 1..Len(s)
        occ == {p \in I \X I \X I : RangeOcc(s, p[1], p[2], p[3])}
        p == CHOOSE q \in occ : \A r \in occ : q[1] <= r[1]
    IN  [n1 |-> int(SubSeq(s, p[1], p[2])),
         n2 |-> int(SubSeq(s, p[2] + 2, p[3]))]

HasWord(s, w) == Contains(lower(s), w)
NoKeyword(s) ==
    ~HasWord(s, Under) /\ ~HasWord(s, Not) /\ ~HasWord(s, Unknown)

\* the same label spelt with hyphens only, and with en-dashes only
Hyphenated(s) == [i \in 1..Len(s) |-> IF s[i] = EnDash THEN "-" ELSE s[i]]
EnDashed(s) == [i \in 1..Len(s) |-> IF s[i] = "-" THEN EnDash ELSE s[i]]

Parsed == ppc = "parsed" /\ ~isna(label)

C5_Case ==
    Parsed /\ NoKeyword(label.v) /\ ~HasPlus(label.v) /\ HasRange(label.v)

\* C5: a label without "under", "not", "unknown" and without "<N>+" that
\* contains a range N1-N2 (hyphen or en-dash) parses to min = N1 and
\* max = N2 of the first range, and the hyphen and the en-dash spelling of
\* the label parse alike.
C5_RangeBounds ==
    C5_Case =>
        /\ age_min = Val(FirstRange(label.v).n1)
        /\ age_max = Val(FirstRange(label.v).n2)
        /\ parse_age_min(Val(Hyphenated(label.v))) = age_min
        /\ parse_age_max(Val(Hyphenated(label.v))) = age_max
        /\ parse_age_min(Val(EnDashed(label.v))) = age_min
        /\ parse_age_max(Val(EnDashed(label.v))) = age_max
C5_Witness ==
    /\ C5_Case
    /\ \E i \in 1..Len(label.v) : label.v[i] = EnDash
    /\ age_min = Val(5) /\ age_max = Val(0)

C6_MissingCase ==
    \/ isna(label)
    \/ /\ ~HasWord(label.v, Under)
       /\ \/ HasWord(label.v, Not)
          \/ HasWord(label.v, Unknown)
          \/ \A i \in 1..Len(label.v) : label.v[i] \notin Digits

\* C6: both bounds are missing when the label is missing, or has no
\* "under" and contains "not" or "unknown", or has no "under" and no digit;
\* otherwise both are integers.  So one is missing iff the other is.
C6_MissingTogether ==
    ppc = "parsed" =>
        /\ isna(age_min) <=> isna(age_max)
        /\ C6_MissingCase => isna(age_min) /\ isna(age_max)
        /\ ~C6_MissingCase =>
              /\ ~isna(age_min) /\ age_min.v \in Nat
              /\ ~isna(age_max) /\ age_max.v \in Nat
C6_Witness ==
    /\ Parsed
    /\ HasWord(label.v, Not)
    /\ \E i \in 1..Len(label.v) : label.v[i] \in Digits
    /\ isna(age_min) /\ isna(age_max)

\* C7: a non-missing label containing "under" in any letter case parses to
\* (0, 1), whatever else it contains.
C7_UnderFirst ==
    (Parsed /\ HasWord(label.v, Under)) =>
        age_min = Val(0) /\ age_max = Val(1)
C7_Witness ==
    /\ Parsed
    /\ HasWord(label.v, Under) /\ ~Contains(label.v, Under)
    /\ HasWord(label.v, Not)
    /\ HasPlus(label.v)
    /\ age_min = Val(0) /\ age_max = Val(1)

C10_Case == Parsed /\ NoKeyword(label.v) /\ HasPlus(label.v)

\* C10 as stated: a label without "under", "not", "unknown" that contains
\* "<N>+" parses to min = N and max = N + 9, with or without a range.
C10_PlusBeforeRange ==
    C10_Case =>
        /\ age_min = Val(FirstPlusN(label.v))
        /\ age_max = Val(FirstPlusN(label.v) + 9)
\* C10 amended: min = N always; max = N + 9 when the label contains no
\* range, and max = N2 of the first range N1-N2 when it contains one.
C10_PlusAmended ==
    C10_Case =>
        /\ age_min = Val(FirstPlusN(label.v))
        /\ ~HasRange(label.v) => age_max = Val(FirstPlusN(label.v) + 9)
        /\ HasRange(label.v) => age_max = Val(FirstRange(label.v).n2)
C10_Witness ==
    /\ C10_Case
    /\ HasRange(label.v)
    /\ age_min = Val(85) /\ age_max = Val(4)

=============================================================================
